---- MODULE Spec2Model ----
(***************************************************************************)
(* State-machine model of the role administration tool:                    *)
(*   src/Conda/rol_management.py  (RoleManager and the CLI)                *)
(*   src/Conda/api.py             (the same RoleManager behind GET /roles) *)
(* The database is three tables (ue_roles, ue_usuario, ue_usuario_roles),  *)
(* the session's uncommitted inserts, and the engine's role catalog.       *)
(* Every database call of an operation may raise; the step that raises is  *)
(* an input of the operation.                                              *)
(* Four specifications share the operators:                                *)
(*   Spec      engine calls, one at a time, on one session;                *)
(*   SpecEnv   the same, with other sessions changing ue_roles, ue_usuario;*)
(*   SpecCli   main(): the nested loop over the user and role lists;       *)
(*   SpecConc  grant_role on two sessions, statement by statement.         *)
(***************************************************************************)
EXTENDS Integers, Sequences, FiniteSets, TLC

VARIABLES
    rolesTable,     \* ue21.ue_roles: sequence of <<id, nombre>> in fetch order
    usersTable,     \* ue21.ue_usuario: set of [id, usr_portal]
    grants,         \* ue21.ue_usuario_roles, committed rows [id, rol_id, usr_id]
    pending,        \* rows inserted on the session and not yet committed
    role_manager,   \* "unset" | "None" | "engine" | "exited"
    roles,          \* self.roles: function role id -> name
    roles_by_name,  \* self.roles_by_name: function name -> role id
    last,           \* what the last operation did and returned
    cli,            \* main(): its arguments, its place in the loops, its calls
    sess            \* grant_role in progress on each of two sessions

vars == <<rolesTable, usersTable, grants, pending, role_manager, roles,
          roles_by_name, last, cli, sess>>

\* ------------------------------------------------------------------ bounds
MaxRoleId == 2      \* role ids of the roles table are 1..MaxRoleId
MaxInitId == 2      \* surrogate id of a grant row present before the run
MaxListLen == 2     \* entries of --user_name and of --roles

\* Python's None for an integer result (fetchone() found no row).
None == -1

Logins == {"alice", "bob", "carol"}
RoleIds == 1 .. MaxRoleId
\* MaxRoleId + 1 is a role id that no roles table holds.
RequestRoleIds == 1 .. (MaxRoleId + 1)

RoleName(i) == IF i % 2 = 1 THEN "Viewer" ELSE "Admin"

\* Tables of the roles relation: empty, or every role in every row order.
RECURSIVE Perms(_)
Perms(S) ==
    IF S = {} THEN {<<>>}
    ELSE UNION {{<<x>> \o p : p \in Perms(S \ {x})} : x \in S}

RoleTables ==
    {<<>>} \cup {[k \in DOMAIN p |-> <<p[k], RoleName(p[k])>>] : p \in Perms(RoleIds)}

CanonicalRoles == [k \in 1 .. MaxRoleId |-> <<k, RoleName(k)>>]

\* Users: alice has id 1, bob has id 0, carol has no row.
InitUsers ==
    {[id |-> 1, usr_portal |-> "alice"], [id |-> 0, usr_portal |-> "bob"]}

GrantRow(i, r, u) == [id |-> i, rol_id |-> r, usr_id |-> u]

\* The grant table before the run: empty, or one row of role 1 held by one of
\* the users (granted by an earlier run or by another tool).
InitGrantTables ==
    {{}} \cup {{GrantRow(i, 1, u)} : i \in 1 .. MaxInitId, u \in {0, 1}}

\* ------------------------------------------------------------ pure helpers
Max(S) == CHOOSE x \in S : \A y \in S : y <= x
Min(S) == CHOOSE x \in S : \A y \in S : x <= y

\* {row[0]: row[1] for row in cursor.fetchall()}: the last row of an id wins.
LoadRoles(rows) ==
    [i \in {rows[k][1] : k \in DOMAIN rows} |->
        rows[Max({k \in DOMAIN rows : rows[k][1] = i})][2]]

\* {name: id for id, name in self.roles.items()}: the last id of a name wins;
\* a dict iterates in insertion order, the order of first appearance of the id.
FirstPos(rows, i) == Min({k \in DOMAIN rows : rows[k][1] = i})
RolesByName(rows) ==
    LET r == LoadRoles(rows)
        LastOf(n) == CHOOSE i \in DOMAIN r :
                        /\ r[i] = n
                        /\ \A j \in DOMAIN r :
                              r[j] = n => FirstPos(rows, j) <= FirstPos(rows, i)
    IN  [n \in {r[i] : i \in DOMAIN r} |-> LastOf(n)]

\* Variant: role_exists asking the roles table instead of self.roles.
role_exists_fresh(role_id) == \E k \in DOMAIN rolesTable : rolesTable[k][1] = role_id

role_exists(role_id) == role_id \in DOMAIN roles

\* Variant: self.roles.items() without sorted(): the order of the rows fetched.
ItemsInsertionOrder(r) == [k \in 1 .. Len(rolesTable) |-> rolesTable[k]]

\* sorted(self.roles.items()): ascending (id, name); the ids of a dict are
\* distinct, so the order is the order of the ids.
RECURSIVE SortedItems(_)
SortedItems(r) ==
    IF DOMAIN r = {} THEN <<>>
    ELSE LET m == Min(DOMAIN r)
         IN  <<(<<m, r[m]>>)>> \o SortedItems([i \in DOMAIN r \ {m} |-> r[i]])

\* Variant: the id of a login kept from the previous call that resolved it.
UserRowId_cached(user) ==
    IF last.op \in {"check", "grant"} /\ last.user = user /\ last.uid # None
    THEN last.uid
    ELSE IF \E row \in usersTable : row.usr_portal = user
    THEN (CHOOSE row \in usersTable : row.usr_portal = user).id
    ELSE None

\* SELECT ID FROM ue_usuario WHERE USR_PORTAL = :usr; fetchone()
UserRowId(user) ==
    IF \E row \in usersTable : row.usr_portal = user
    THEN (CHOOSE row \in usersTable : row.usr_portal = user).id
    ELSE None

\* Variant: the "if not user_id" test left out.
Falsy_never(user_id) == FALSE

\* Python truthiness of the resolved id: None and 0 are both falsy.
Falsy(user_id) == user_id = None \/ user_id = 0

\* What the session sees: committed rows and its own uncommitted rows.
SessionView == grants \cup pending

\* Variant: the existence query of grant_role finding no row, ever.
HasGrantRow_never(T, role_id, user_id) == FALSE

HasGrantRow(T, role_id, user_id) ==
    \E row \in T : row.rol_id = role_id /\ row.usr_id = user_id

\* Variant: the next id taken from SELECT COUNT(*) + 1.
NextGrantId_count(T) == Cardinality(T) + 1

\* SELECT MAX(ID) + 1: NULL (None) on an empty table; then "else 1".
NextGrantId(T) ==
    LET max_id_result == IF T = {} THEN None ELSE Max({row.id : row \in T}) + 1
    IN  IF max_id_result # None THEN max_id_result ELSE 1

\* ------------------------------------------------------- injected failures
\* A failure names the database call that raises (at), the exception class
\* (kind: "Error" is an oracledb.Error that is no IntegrityError, "ORA-02291"
\* an IntegrityError for a foreign key, "IntegrityError" any other one) and
\* whether connection.rollback() raises as well (rb).
Fault(a, k, b) == [at |-> a, kind |-> k, rb |-> b]
NoFault == Fault("none", "none", FALSE)

CheckFaults ==
    {NoFault} \cup
    {Fault(a, "Error", FALSE) :
        a \in {"cursor", "user_cursor", "user_query", "exists_query"}}

GrantFaults ==
    {NoFault, Fault("cursor", "Error", FALSE), Fault("user_query", "Error", FALSE)}
    \cup {Fault(a, "Error", FALSE) :
            a \in {"user_cursor", "exists_query", "maxid_query", "insert"}}
    \cup {Fault("insert", "IntegrityError", FALSE)}
    \cup {Fault("insert", "ORA-02291", b) : b \in BOOLEAN}
    \cup {Fault("commit", "Error", b) : b \in BOOLEAN}

StartupFaults == {"none", "config", "connect", "roles_cursor", "roles_query"}

\* ------------------------------------------------------------- operations
\* The result of one engine call: ret is "True", "False", "None" or "raise"
\* (an exception left the call); log holds the lines printed, by their tag;
\* steps holds the database statements that ran, in order.
Result(ret, log, steps, uid, raised, kind, g, p) ==
    [ret |-> ret, log |-> log, steps |-> steps, uid |-> uid, raised |-> raised,
     kind |-> kind, grants |-> g, pending |-> p]

\* get_user_id: raised means the error left get_user_id (cursor() is outside
\* its try block); err and kind name the error it caught and reported itself.
get_user_id(user, f) ==
    IF f.at = "user_cursor"
    THEN [id |-> None, log |-> <<>>, steps |-> <<>>, raised |-> TRUE,
          err |-> f.at, kind |-> f.kind]
    ELSE IF f.at = "user_query"
    THEN [id |-> None, log |-> <<"UserLookupError">>, steps |-> <<>>,
          raised |-> FALSE, err |-> f.at, kind |-> f.kind]
    ELSE [id |-> UserRowId(user), log |-> <<>>, steps |-> <<"select_user">>,
          raised |-> FALSE, err |-> "none", kind |-> "none"]

\* Variant: "except oracledb.Error" placed before "except IntegrityError".
GrantErrorTag_generic(kind) == "DatabaseError"

\* The message of grant_role's except clauses, by exception class.
GrantErrorTag(kind) ==
    IF kind = "Error" THEN "DatabaseError"
    ELSE IF kind = "ORA-02291" THEN "IntegrityViolation"
    ELSE "IntegrityError"

\* Variant: the except clauses without connection.rollback().
GrantHandler_no_rollback(f, log, steps, uid, p) ==
    [ret |-> "False",
     log |-> Append(log, IF f.kind = "Error" THEN "DatabaseError"
                         ELSE IF f.kind = "ORA-02291" THEN "IntegrityViolation"
                         ELSE "IntegrityError"),
     steps |-> steps, uid |-> uid, raised |-> f.at, kind |-> f.kind,
     grants |-> grants, pending |-> p]

\* Variant: the except clauses ending in "return True".
GrantHandler_returns_true(f, log, steps, uid, p) ==
    IF f.rb
    THEN Result("raise", Append(log, GrantErrorTag(f.kind)),
                Append(steps, "rollback_failed"), uid, f.at, f.kind, grants, p)
    ELSE Result("True", Append(log, GrantErrorTag(f.kind)),
                Append(steps, "rollback"), uid, f.at, f.kind, grants, {})

\* grant_role's except clauses: print, connection.rollback(), return False.
\* p is the session's uncommitted rows when the exception was raised.
GrantHandler(f, log, steps, uid, p) ==
    IF f.rb
    THEN Result("raise", Append(log, GrantErrorTag(f.kind)),
                Append(steps, "rollback_failed"), uid, f.at, f.kind, grants, p)
    ELSE Result("False", Append(log, GrantErrorTag(f.kind)),
                Append(steps, "rollback"), uid, f.at, f.kind, grants, {})

\* grant_role. The connection handed to the engine is a live one, so the
\* "if not self.connection" test never raises; self.connection.cursor() is
\* outside the try block, so an error it raises leaves the call. The queries
\* of a session see its own uncommitted rows; commit makes them all durable.
grant_role(user, role_id, f) ==
    IF f.at = "cursor"
    THEN Result("raise", <<>>, <<>>, None, "cursor", f.kind, grants, pending)
    ELSE
    LET u == get_user_id(user, f)
        user_id == u.id
        s1 == u.steps
        s2 == Append(s1, "select_grant")
        s3 == Append(s2, "select_max")
        s4 == Append(s3, "insert")
        new_id == NextGrantId(SessionView)
        inserted == pending \cup {GrantRow(new_id, role_id, user_id)}
    IN  IF u.raised THEN GrantHandler(f, u.log, s1, None, pending)
        ELSE IF Falsy(user_id)
        THEN Result("False", Append(u.log, "UserNotFound"), s1, user_id, u.err,
                    u.kind, grants, pending)
        ELSE IF ~role_exists(role_id)
        THEN Result("False", <<"RoleNotFound">>, s1, user_id, "none", "none",
                    grants, pending)
        ELSE IF f.at = "exists_query" THEN GrantHandler(f, <<>>, s1, user_id, pending)
        ELSE IF HasGrantRow(SessionView, role_id, user_id)
        THEN Result("True", <<"AlreadyGranted">>, s2, user_id, "none", "none",
                    grants, pending)
        ELSE IF f.at = "maxid_query" THEN GrantHandler(f, <<>>, s2, user_id, pending)
        ELSE IF f.at = "insert" THEN GrantHandler(f, <<>>, s3, user_id, pending)
        ELSE IF f.at = "commit" THEN GrantHandler(f, <<>>, s4, user_id, inserted)
        ELSE Result("True", <<"Success">>, Append(s4, "commit"), user_id, "none",
                    "none", grants \cup inserted, {})

\* Variant: the membership check running the body of grant_role.
check_user_role_writes(user, role_id, f) == grant_role(user, role_id, f)

\* check_user_role: its except clause prints and returns False, with no
\* rollback; no path inserts or commits.
check_user_role(user, role_id, f) ==
    IF f.at = "cursor"
    THEN Result("raise", <<>>, <<>>, None, "cursor", f.kind, grants, pending)
    ELSE
    LET u == get_user_id(user, f)
        user_id == u.id
        has_role == HasGrantRow(SessionView, role_id, user_id)
    IN  IF u.raised
        THEN Result("False", <<"CheckDbError">>, u.steps, None, f.at, f.kind,
                    grants, pending)
        ELSE IF Falsy(user_id)
        THEN Result("False", Append(u.log, "UserNotFound"), u.steps, user_id, u.err,
                    u.kind, grants, pending)
        ELSE IF ~role_exists(role_id)
        THEN Result("False", <<"RoleNotFound">>, u.steps, user_id, "none", "none",
                    grants, pending)
        ELSE IF f.at = "exists_query"
        THEN Result("False", <<"CheckDbError">>, u.steps, user_id, f.at, f.kind,
                    grants, pending)
        ELSE Result(IF has_role THEN "True" ELSE "False",
                    <<IF has_role THEN "HasRole" ELSE "NoRole">>,
                    Append(u.steps, "select_grant"), user_id, "none", "none",
                    grants, pending)

\* Variant: list_all_roles without the "if not self.roles" test.
list_all_roles_print_unguarded ==
    [ret |-> "None", log |-> <<"RolesListed">>, out |-> SortedItems(roles),
     total |-> Cardinality(DOMAIN roles)]

\* RoleManager.list_all_roles (rol_management.py, and the method of the class
\* in api.py): prints, and returns None on both paths.
NoBody == [kind |-> "none", total |-> 0, roles |-> <<>>]
list_all_roles_print ==
    IF DOMAIN roles = {}
    THEN [ret |-> "None", log |-> <<"NoRoles">>, out |-> <<>>, total |-> 0]
    ELSE [ret |-> "None", log |-> <<"RolesListed">>, out |-> SortedItems(roles),
          total |-> Cardinality(DOMAIN roles)]

\* list_all_roles of api.py, lines 230-240: defined at module level, after the
\* class body has ended, so it is no method of RoleManager. It returns a dict.
list_all_roles(self_roles) ==
    IF DOMAIN self_roles = {}
    THEN [kind |-> "error", total |-> 0, roles |-> <<>>]
    ELSE LET roles_list == SortedItems(self_roles)
         IN  [kind |-> "roles", total |-> Len(roles_list), roles |-> roles_list]

\* --------------------------------------------------------------- the state
\* stale: another session has changed ue_roles or ue_usuario since the call.
NoCall ==
    [op |-> "none", user |-> "", role |-> 0, ret |-> "None", log |-> <<>>,
     steps |-> <<>>, uid |-> None, raised |-> "none", kind |-> "none",
     before |-> {}, pbefore |-> {}, out |-> <<>>, total |-> 0, status |-> 0,
     body |-> NoBody, stale |-> FALSE]

\* main() not started.
NoCli ==
    [pc |-> "idle", action |-> "none", users |-> <<>>, roles |-> <<>>,
     i |-> 1, j |-> 1, calls |-> <<>>, code |-> "none"]

\* A session with no grant_role call in progress.
Sessions == {1, 2}
IdleSession ==
    [pc |-> "idle", user_id |-> None, role_id |-> 0, new_id |-> 0, rows |-> {},
     overlap |-> FALSE]
NoSessions == [s \in Sessions |-> IdleSession]

Call(op, user, role_id, r) ==
    [NoCall EXCEPT !.op = op, !.user = user, !.role = role_id, !.ret = r.ret,
                   !.log = r.log, !.steps = r.steps, !.uid = r.uid,
                   !.raised = r.raised, !.kind = r.kind, !.before = grants,
                   !.pbefore = pending]

Init ==
    /\ \/ rolesTable \in RoleTables /\ usersTable = {} /\ grants = {}
       \/ rolesTable = CanonicalRoles /\ usersTable = InitUsers
          /\ grants \in InitGrantTables
    /\ pending = {}
    /\ role_manager = "unset"
    /\ roles = <<>>
    /\ roles_by_name = <<>>
    /\ last = NoCall
    /\ cli = NoCli
    /\ sess = NoSessions

\* Process start: load_db_config, connect_to_db, RoleManager(connection).
\*   "config": load_db_config raises (int() of a bad DB_PORT); api.py catches
\*             it and keeps role_manager = None.
\*   "connect": connect_to_db prints and calls sys.exit(1).
\*   "roles_cursor": connection.cursor() raises inside load_roles_from_db,
\*             before its try block; the constructor raises.
\*   "roles_query": the SELECT raises; load_roles_from_db returns {}.
Startup(fault) ==
    /\ role_manager = "unset"
    /\ role_manager' = CASE fault \in {"config", "roles_cursor"} -> "None"
                         [] fault = "connect" -> "exited"
                         [] OTHER -> "engine"
    /\ roles' = IF fault = "none" THEN LoadRoles(rolesTable) ELSE <<>>
    /\ roles_by_name' = IF fault = "none" THEN RolesByName(rolesTable) ELSE <<>>
    /\ last' = [NoCall EXCEPT !.op = "startup", !.raised = fault,
                              !.log = IF fault = "roles_query"
                                      THEN <<"RolesLoadError">> ELSE <<>>]
    /\ UNCHANGED <<rolesTable, usersTable, grants, pending>>

\* One call of check_user_role from the command line. The failure f is one the
\* call runs into (r.raised = f.at): a failure placed at a statement the call
\* never reaches is the same call as the one without it.
CheckMembership(user, role_id, f) ==
    /\ role_manager = "engine"
    /\ LET r == check_user_role(user, role_id, f)
       IN  /\ r.raised = f.at
           /\ grants' = r.grants
           /\ pending' = r.pending
           /\ last' = Call("check", user, role_id, r)
    /\ UNCHANGED <<rolesTable, usersTable, role_manager, roles, roles_by_name>>

\* One call of grant_role from the command line, with its commit or rollback.
GrantRole(user, role_id, f) ==
    /\ role_manager = "engine"
    /\ LET r == grant_role(user, role_id, f)
       IN  /\ r.raised = f.at
           /\ grants' = r.grants
           /\ pending' = r.pending
           /\ last' = Call("grant", user, role_id, r)
    /\ UNCHANGED <<rolesTable, usersTable, role_manager, roles, roles_by_name>>

\* --action list-roles of the command line.
ListRoles ==
    /\ role_manager = "engine"
    /\ LET r == list_all_roles_print
       IN  last' = [NoCall EXCEPT !.op = "list", !.ret = r.ret, !.log = r.log,
                                  !.out = r.out, !.total = r.total,
                                  !.before = grants, !.pbefore = pending]
    /\ UNCHANGED <<rolesTable, usersTable, grants, pending, role_manager, roles,
                   roles_by_name>>

\* jsonify(x) of a value that is None: "null" on a Flask that serialises any
\* value, TypeError on one that builds dict(*args) first.
jsonify_none(rejects) ==
    IF rejects THEN [status |-> 500, body |-> [NoBody EXCEPT !.kind = "error"]]
    ELSE [status |-> 200, body |-> [NoBody EXCEPT !.kind = "null"]]

\* GET /roles. role_manager.list_all_roles() is the method of the class, the
\* printing one; listing_raises is any exception raised while it runs.
get_all_roles(listing_raises, rejects) ==
    IF role_manager = "None"
    THEN [status |-> 500, body |-> [NoBody EXCEPT !.kind = "error"], r |-> NoCall]
    ELSE IF listing_raises
    THEN [status |-> 500, body |-> [NoBody EXCEPT !.kind = "error"], r |-> NoCall]
    ELSE LET roles_data == list_all_roles_print
             j == jsonify_none(rejects)
         IN  [status |-> j.status, body |-> j.body,
              r |-> [NoCall EXCEPT !.log = roles_data.log, !.out = roles_data.out,
                                   !.total = roles_data.total]]

GetAllRoles(listing_raises, rejects) ==
    /\ role_manager \in {"None", "engine"}
    /\ LET h == get_all_roles(listing_raises, rejects)
       IN  last' = [h.r EXCEPT !.op = "http", !.status = h.status, !.body = h.body,
                               !.raised = IF listing_raises /\ role_manager = "engine"
                                          THEN "listing" ELSE "none",
                               !.before = grants, !.pbefore = pending]
    /\ UNCHANGED <<rolesTable, usersTable, grants, pending, role_manager, roles,
                   roles_by_name>>

Next ==
    \/ \E fault \in StartupFaults : Startup(fault) /\ UNCHANGED <<cli, sess>>
    \/ \E user \in Logins, role_id \in RequestRoleIds, f \in CheckFaults :
          CheckMembership(user, role_id, f) /\ UNCHANGED <<cli, sess>>
    \/ \E user \in Logins, role_id \in RequestRoleIds, f \in GrantFaults :
          GrantRole(user, role_id, f) /\ UNCHANGED <<cli, sess>>
    \/ ListRoles /\ UNCHANGED <<cli, sess>>
    \/ \E listing_raises \in BOOLEAN, rejects \in BOOLEAN :
          GetAllRoles(listing_raises, rejects) /\ UNCHANGED <<cli, sess>>

Spec == Init /\ [][Next]_vars

\* ------------------------------------------ other sessions change the tables
\* The engine reads ue_roles once, in its constructor, and ue_usuario in every
\* call; both tables belong to the portal and other sessions write them. Their
\* committed changes come between two calls of the engine.
MovableLogins == {"alice"}
EnvUserIds == {1, 2}

RoleRowIds(rows) == {rows[k][1] : k \in DOMAIN rows}

MarkStale == last' = [last EXCEPT !.stale = TRUE]

InsertRolesRow(role_id) ==
    /\ role_manager = "engine"
    /\ role_id \notin RoleRowIds(rolesTable)
    /\ rolesTable' = Append(rolesTable, <<role_id, RoleName(role_id)>>)
    /\ MarkStale
    /\ UNCHANGED <<usersTable, grants, pending, role_manager, roles, roles_by_name>>

DeleteRolesRow(role_id) ==
    /\ role_manager = "engine"
    /\ role_id \in RoleRowIds(rolesTable)
    /\ rolesTable' = SelectSeq(rolesTable, LAMBDA row : row[1] # role_id)
    /\ MarkStale
    /\ UNCHANGED <<usersTable, grants, pending, role_manager, roles, roles_by_name>>

\* A login gets a row, or its row is replaced by one of another id.
PutUserRow(user, id) ==
    /\ role_manager = "engine"
    /\ \A row \in usersTable : row.id # id
    /\ usersTable' = {row \in usersTable : row.usr_portal # user}
                        \cup {[id |-> id, usr_portal |-> user]}
    /\ MarkStale
    /\ UNCHANGED <<rolesTable, grants, pending, role_manager, roles, roles_by_name>>

DeleteUserRow(user) ==
    /\ role_manager = "engine"
    /\ \E row \in usersTable : row.usr_portal = user
    /\ usersTable' = {row \in usersTable : row.usr_portal # user}
    /\ MarkStale
    /\ UNCHANGED <<rolesTable, grants, pending, role_manager, roles, roles_by_name>>

InitEnv ==
    /\ rolesTable = <<(<<1, RoleName(1)>>)>>
    /\ usersTable = InitUsers
    /\ grants = {}
    /\ pending = {}
    /\ role_manager = "unset"
    /\ roles = <<>>
    /\ roles_by_name = <<>>
    /\ last = NoCall
    /\ cli = NoCli
    /\ sess = NoSessions

\* The engine's calls here are the ones that meet no database error (Spec has
\* the others).
NextEnv ==
    \/ \E fault \in StartupFaults : Startup(fault) /\ UNCHANGED <<cli, sess>>
    \/ \E user \in Logins, role_id \in RequestRoleIds :
          CheckMembership(user, role_id, NoFault) /\ UNCHANGED <<cli, sess>>
    \/ \E user \in Logins, role_id \in RequestRoleIds :
          GrantRole(user, role_id, NoFault) /\ UNCHANGED <<cli, sess>>
    \/ ListRoles /\ UNCHANGED <<cli, sess>>
    \/ \E role_id \in RoleIds : InsertRolesRow(role_id) /\ UNCHANGED <<cli, sess>>
    \/ \E role_id \in RoleIds : DeleteRolesRow(role_id) /\ UNCHANGED <<cli, sess>>
    \/ \E user \in MovableLogins, id \in EnvUserIds :
          PutUserRow(user, id) /\ UNCHANGED <<cli, sess>>
    \/ \E user \in MovableLogins : DeleteUserRow(user) /\ UNCHANGED <<cli, sess>>

SpecEnv == InitEnv /\ [][NextEnv]_vars

\* ------------------------------------------------------------------ main()
\* --user_name and --roles, split on commas: lists of distinct entries, of
\* 1..MaxListLen entries. The role ids asked for are one of the catalog and
\* one that no roles table holds.
ListsOver(S) ==
    UNION {Perms(T) : T \in {X \in SUBSET S : Cardinality(X) \in 1 .. MaxListLen}}
CliUserLists == ListsOver(Logins)
CliRoleLists == ListsOver({1, MaxRoleId + 1})
CliGrantTables == {{}, {GrantRow(1, 1, 1)}}

\* main() up to the loops: connect, build the engine, parse the two lists.
\* A start-up failure ends the process before the try block; a role entry that
\* is no integer (bad_role) raises ValueError, caught at the end of main.
CliStart(action, users, role_ids, fault, bad_role) ==
    /\ cli.pc = "idle"
    /\ Startup(fault)
    /\ cli' = [NoCli EXCEPT
                 !.action = action, !.users = users, !.roles = role_ids,
                 !.pc = IF role_manager' # "engine" THEN "exit"
                        ELSE IF bad_role THEN "finally" ELSE "loop",
                 !.code = IF role_manager' # "engine" THEN "startup"
                          ELSE IF bad_role THEN "value_error" ELSE "none"]
    /\ UNCHANGED sess

\* One pass of the inner loop body: the engine call for (users[i], roles[j]).
\* The call's return value is dropped; an exception that leaves the call is
\* no ValueError, so it leaves main through the finally clause.
CliInvoke(f) ==
    /\ cli.pc = "loop"
    /\ LET user == cli.users[cli.i]
           role_id == cli.roles[cli.j]
       IN  /\ IF cli.action = "grant" THEN GrantRole(user, role_id, f)
              ELSE CheckMembership(user, role_id, f)
           /\ LET calls == Append(cli.calls, [user |-> user, role |-> role_id,
                                              ret |-> last'.ret])
              IN  cli' =
                    IF last'.ret = "raise"
                    THEN [cli EXCEPT !.calls = calls, !.pc = "finally",
                                     !.code = "uncaught"]
                    ELSE IF cli.j < Len(cli.roles)
                    THEN [cli EXCEPT !.calls = calls, !.j = cli.j + 1]
                    ELSE IF cli.i < Len(cli.users)
                    THEN [cli EXCEPT !.calls = calls, !.i = cli.i + 1, !.j = 1]
                    ELSE [cli EXCEPT !.calls = calls, !.pc = "finally",
                                     !.code = "ok"]
    /\ UNCHANGED sess

\* finally: connection.close(); the session's uncommitted rows are dropped.
CliClose ==
    /\ cli.pc = "finally"
    /\ cli' = [cli EXCEPT !.pc = "exit"]
    /\ pending' = {}
    /\ role_manager' = "exited"
    /\ UNCHANGED <<rolesTable, usersTable, grants, roles, roles_by_name, last, sess>>

InitCli ==
    /\ rolesTable = CanonicalRoles
    /\ usersTable = InitUsers
    /\ grants \in CliGrantTables
    /\ pending = {}
    /\ role_manager = "unset"
    /\ roles = <<>>
    /\ roles_by_name = <<>>
    /\ last = NoCall
    /\ cli = NoCli
    /\ sess = NoSessions

NextCli ==
    \/ \E action \in {"check", "grant"}, users \in CliUserLists,
          role_ids \in CliRoleLists, fault \in StartupFaults, bad_role \in BOOLEAN :
          CliStart(action, users, role_ids, fault, bad_role)
    \/ \E f \in GrantFaults : CliInvoke(f)
    \/ CliClose

SpecCli == InitCli /\ [][NextCli]_vars

\* ------------------------------------------------- grant_role, two sessions
\* Two engines, each built on a connection of its own over the same tables,
\* run grant_role statement by statement. A session's queries see the
\* committed rows and the session's own uncommitted ones. rowid tells apart
\* two rows that are equal in every column (the table of the repository's
\* queries has no key the code relies on). overlap is set on a session that is
\* between its existence query and its commit when the other session commits
\* a row for the same (user, role).
ConcRow(i, r, u, s) == [id |-> i, rol_id |-> r, usr_id |-> u, rowid |-> s]
SessionSees(s) == grants \cup sess[s].rows
InCall(c) == c.pc \in {"checked", "got_id", "inserted"}

\* Lines 106-123: cursor, get_user_id, the role test, the existence query.
\* The three early returns leave nothing behind.
ConcExistenceCheck(s, user, role_id) ==
    /\ sess[s].pc = "idle"
    /\ LET user_id == UserRowId(user)
       IN  sess' = IF Falsy(user_id) \/ ~role_exists(role_id)
                      \/ HasGrantRow(SessionSees(s), role_id, user_id)
                   THEN sess
                   ELSE [sess EXCEPT ![s] = [IdleSession EXCEPT
                            !.pc = "checked", !.user_id = user_id,
                            !.role_id = role_id]]
    /\ UNCHANGED <<rolesTable, usersTable, grants, pending, role_manager, roles,
                   roles_by_name, last, cli>>

\* Lines 126-128: SELECT MAX(ID) + 1.
ConcNextId(s) ==
    /\ sess[s].pc = "checked"
    /\ sess' = [sess EXCEPT ![s].pc = "got_id",
                            ![s].new_id = NextGrantId(SessionSees(s))]
    /\ UNCHANGED <<rolesTable, usersTable, grants, pending, role_manager, roles,
                   roles_by_name, last, cli>>

\* Lines 130-133: the INSERT; rejected is an error raised by it, followed by
\* the rollback of the except clause.
ConcInsert(s, rejected) ==
    /\ sess[s].pc = "got_id"
    /\ sess' = IF rejected THEN [sess EXCEPT ![s] = IdleSession]
               ELSE [sess EXCEPT ![s].pc = "inserted",
                                 ![s].rows = {ConcRow(sess[s].new_id, sess[s].role_id,
                                                      sess[s].user_id, s)}]
    /\ UNCHANGED <<rolesTable, usersTable, grants, pending, role_manager, roles,
                   roles_by_name, last, cli>>

\* Line 134: commit; fails is an error raised by it, followed by the rollback.
ConcCommit(s, fails) ==
    /\ sess[s].pc = "inserted"
    /\ grants' = IF fails THEN grants ELSE grants \cup sess[s].rows
    /\ sess' = [t \in Sessions |->
                  IF t = s THEN IdleSession
                  ELSE IF ~fails /\ InCall(sess[t])
                          /\ sess[t].role_id = sess[s].role_id
                          /\ sess[t].user_id = sess[s].user_id
                  THEN [sess[t] EXCEPT !.overlap = TRUE]
                  ELSE sess[t]]
    /\ UNCHANGED <<rolesTable, usersTable, pending, role_manager, roles,
                   roles_by_name, last, cli>>

\* Both engines are built, over the same roles table.
InitConc ==
    /\ rolesTable = CanonicalRoles
    /\ usersTable = InitUsers
    /\ grants \in {{}, {ConcRow(MaxInitId, 1, 1, 0)}}
    /\ pending = {}
    /\ role_manager = "engine"
    /\ roles = LoadRoles(rolesTable)
    /\ roles_by_name = RolesByName(rolesTable)
    /\ last = NoCall
    /\ cli = NoCli
    /\ sess = NoSessions

NextConc ==
    \/ \E s \in Sessions, user \in Logins, role_id \in RequestRoleIds :
          ConcExistenceCheck(s, user, role_id)
    \/ \E s \in Sessions : ConcNextId(s)
    \/ \E s \in Sessions, rejected \in BOOLEAN : ConcInsert(s, rejected)
    \/ \E s \in Sessions, fails \in BOOLEAN : ConcCommit(s, fails)

SpecConc == InitConc /\ [][NextConc]_vars

\* ------------------------------------------------------------------ claims
Outcome(c) == IF c.log = <<>> THEN "none" ELSE c.log[Len(c.log)]
InSeq(q, x) == \E k \in DOMAIN q : q[k] = x
NoDuplicates(q) == \A j, k \in DOMAIN q : q[j] = q[k] => j = k
RowsFor(T, role_id, user_id) ==
    {row \in T : row.rol_id = role_id /\ row.usr_id = user_id}
HasUserRow(user) == \E row \in usersTable : row.usr_portal = user
EngineCall == last.op \in {"check", "grant"}
Untouched == grants = last.before /\ pending = last.pbefore

\* C1: for a user that resolves and a catalog role with no prior grant row,
\* two GrantRole calls in sequence (no database error) give Success and then
\* AlreadyGranted, and exactly one grant row for the pair exists afterwards.
C1_FirstGrant ==
    (/\ last' # last
     /\ last'.op = "grant" /\ last'.raised = "none"
     /\ last'.uid # None
     /\ last'.role \in DOMAIN roles
     /\ RowsFor(SessionView, last'.role, last'.uid) = {})
    => Outcome(last') = "Success"
C1_SecondGrant ==
    (/\ last.op = "grant" /\ last.raised = "none"
     /\ last.uid # None
     /\ last.role \in DOMAIN roles
     /\ RowsFor(last.before \cup last.pbefore, last.role, last.uid) = {}
     /\ last' # last
     /\ last'.op = "grant" /\ last'.raised = "none"
     /\ last'.user = last.user /\ last'.role = last.role)
    => /\ Outcome(last) = "Success"
       /\ Outcome(last') = "AlreadyGranted"
       /\ Cardinality(RowsFor(grants', last.role, last.uid)) = 1
C1_GrantTwice == [][C1_FirstGrant /\ C1_SecondGrant]_vars

\* C1 for the users whose internal id is not 0 (their id passes the
\* "if not user_id" test of grant_role).
C1_FirstGrant_IdNotZero == last'.uid # 0 => C1_FirstGrant
C1_SecondGrant_IdNotZero == last.uid # 0 => C1_SecondGrant
C1_GrantTwice_IdNotZero ==
    [][C1_FirstGrant_IdNotZero /\ C1_SecondGrant_IdNotZero]_vars
C1_GrantTwice_IdNotZero_Witness ==
    /\ last.op = "grant" /\ Outcome(last) = "AlreadyGranted"
    /\ last.before # {} /\ grants = last.before
    /\ Cardinality(RowsFor(grants, last.role, last.uid)) = 1

\* C2: for a role id outside the catalog and a user that resolves, check and
\* grant report RoleNotFound and leave the grant table as it was.
C2_RoleNotFound ==
    (EngineCall /\ last.uid # None /\ last.role \notin DOMAIN roles)
    => /\ Outcome(last) = "RoleNotFound"
       /\ last.ret = "False"
       /\ ~InSeq(last.steps, "insert") /\ ~InSeq(last.steps, "commit")
       /\ Untouched

\* C2 for the users whose internal id is not 0.
C2_RoleNotFound_IdNotZero == last.uid # 0 => C2_RoleNotFound
C2_RoleNotFound_IdNotZero_Witness ==
    /\ last.op = "grant" /\ last.uid > 0 /\ last.role \notin DOMAIN roles
    /\ DOMAIN roles # {}

\* C3: for a login name with no row in the users table, check and grant report
\* UserNotFound and leave the grant table as it was, whatever the role id
\* (the cursors of the call could be opened).
C3_UserNotFound ==
    (EngineCall /\ ~HasUserRow(last.user)
     /\ last.raised \notin {"cursor", "user_cursor"})
    => /\ Outcome(last) = "UserNotFound"
       /\ last.ret = "False"
       /\ ~InSeq(last.steps, "insert") /\ ~InSeq(last.steps, "commit")
       /\ Untouched
C3_Witness ==
    /\ last.op = "grant" /\ last.user = "carol" /\ HasUserRow("alice")
    /\ last.role \in DOMAIN roles
    /\ Outcome(last) = "UserNotFound"

\* C4: CheckMembership leaves the grant table as it was, for every user, role
\* and database error.
C4_CheckReadsOnly ==
    last.op = "check"
    => /\ Untouched
       /\ ~InSeq(last.steps, "insert") /\ ~InSeq(last.steps, "commit")
C4_Witness ==
    /\ last.op = "check" /\ last.ret = "True" /\ grants # {}
    /\ Outcome(last) = "HasRole"

\* C5: when the user resolves to uid, the role is in the catalog and no grant
\* row exists for the pair, GrantRole (no database error) inserts exactly one
\* row (max id + 1 or 1, role, uid) and commits it before returning Success.
C5_InsertNextId ==
    (/\ last.op = "grant" /\ last.raised = "none"
     /\ last.uid # None
     /\ last.role \in DOMAIN roles
     /\ last.pbefore = {}
     /\ RowsFor(last.before, last.role, last.uid) = {})
    => LET new_id == IF last.before = {} THEN 1
                     ELSE Max({row.id : row \in last.before}) + 1
       IN  /\ grants = last.before \cup {GrantRow(new_id, last.role, last.uid)}
           /\ Cardinality(grants) = Cardinality(last.before) + 1
           /\ pending = {}
           /\ Len(last.steps) >= 2
           /\ last.steps[Len(last.steps) - 1] = "insert"
           /\ last.steps[Len(last.steps)] = "commit"
           /\ Outcome(last) = "Success" /\ last.ret = "True"

\* C5 for the users whose internal id is not 0.
C5_InsertNextId_IdNotZero == last.uid # 0 => C5_InsertNextId
C5_InsertNextId_IdNotZero_Witness ==
    /\ last.op = "grant" /\ Outcome(last) = "Success"
    /\ Cardinality(last.before) >= 2
    /\ \E row \in grants \ last.before : row.id > Cardinality(grants)

\* C6: when the insert is rejected with a foreign-key violation, GrantRole
\* rolls back and reports IntegrityViolation, not the generic database
\* failure, and the grant table holds as many rows as before.
C6_ForeignKeyViolation ==
    (last.op = "grant" /\ last.raised = "insert" /\ last.kind = "ORA-02291")
    => /\ last.role \in DOMAIN roles
       /\ Outcome(last) = "IntegrityViolation"
       /\ Outcome(last) # "DatabaseError"
       /\ Cardinality(grants) = Cardinality(last.before)
       /\ grants = last.before
       /\ last.steps[Len(last.steps)] \in {"rollback", "rollback_failed"}
       /\ last.ret # "raise"
          => /\ last.ret = "False"
             /\ last.steps[Len(last.steps)] = "rollback"
             /\ pending = {}
C6_Witness ==
    /\ last.op = "grant" /\ last.raised = "insert" /\ last.kind = "ORA-02291"
    /\ last.ret = "False"
    /\ last.before # {}

AscendingOnce(q, r) ==
    /\ Len(q) = Cardinality(DOMAIN r)
    /\ \A k \in DOMAIN q : q[k][1] \in DOMAIN r /\ q[k][2] = r[q[k][1]]
    /\ \A j, k \in DOMAIN q : j < k => q[j][1] < q[k][1]
C8_ListAscending ==
    (last.op = "list" /\ DOMAIN roles # {})
    => /\ AscendingOnce(last.out, roles)
       /\ {last.out[k] : k \in DOMAIN last.out}
             = {rolesTable[k] : k \in DOMAIN rolesTable}
       /\ last.total = Len(rolesTable)
       /\ AscendingOnce(list_all_roles(roles).roles, roles)
       /\ list_all_roles(roles).roles = last.out
C8_Witness ==
    /\ last.op = "list" /\ Len(rolesTable) >= 2
    /\ rolesTable[1][1] > rolesTable[2][1]
    /\ Len(last.out) = Len(rolesTable)

\* C9: ListRoles on a catalog loaded from an empty roles table gives the
\* "no roles available" outcome, which no non-empty catalog gives and which
\* is not a success with an empty list.
C9_NoRolesOutcome ==
    last.op = "list"
    => /\ DOMAIN roles = {}
          => /\ last.log = <<"NoRoles">>
             /\ list_all_roles(roles).kind = "error"
       /\ DOMAIN roles # {}
          => /\ last.log = <<"RolesListed">> /\ last.out # <<>>
             /\ list_all_roles(roles).kind = "roles"
             /\ list_all_roles(roles).roles # <<>>
C9_Witness ==
    /\ last.op = "list" /\ rolesTable = <<>> /\ role_manager = "engine"
    /\ last.log = <<"NoRoles">>

\* C10: GET /roles answers {"total": n, "roles": [...]} with the catalog's
\* entries in ascending id order when the engine was built with a non-empty
\* catalog, and an {"error": ...} body with status 500 when the engine was
\* never built or listing raises.
C10_HttpRoles ==
    last.op = "http"
    => /\ (role_manager = "engine" /\ DOMAIN roles # {} /\ last.raised = "none")
          => /\ last.body.kind = "roles"
             /\ last.body.total = Cardinality(DOMAIN roles)
             /\ last.body.roles = SortedItems(roles)
       /\ (role_manager = "None" \/ last.raised = "listing")
          => last.body.kind = "error" /\ last.status = 500

\* C10, what the handler answers: an error body with status 500 when the
\* engine was never built or listing raises; otherwise the JSON of None, or an
\* error body when jsonify refuses None, and never a {"total", "roles"} body.
C10_HttpAnswers ==
    last.op = "http"
    => /\ last.body.kind \in {"null", "error"}
       /\ (role_manager = "None" \/ last.raised = "listing")
          => last.body.kind = "error" /\ last.status = 500
       /\ last.body.kind = "error" <=> last.status = 500
C10_HttpAnswers_Witness ==
    /\ last.op = "http" /\ role_manager = "engine" /\ DOMAIN roles # {}
    /\ last.body.kind = "null" /\ last.status = 200
    /\ Len(last.out) = Cardinality(DOMAIN roles)

\* C11: no database error raised at any step of CheckMembership or GrantRole
\* (opening the cursor, resolving the user, querying the grant table,
\* inserting, committing, rolling back) leaves the call as an exception: every
\* call ends by returning a value.
C11_NoUncaughtFault == EngineCall => last.ret # "raise"

\* The same for the errors the try blocks cover: every error raised after the
\* engine's cursor is open, with a rollback that does not raise itself, is
\* turned into a returned False.
C11_CaughtInsideTry ==
    EngineCall /\ last.raised \notin {"none", "cursor"}
        /\ ~InSeq(last.steps, "rollback_failed")
    => last.ret = "False"
C11_CaughtInsideTry_Witness ==
    last.op = "grant" /\ last.raised = "commit" /\ last.ret = "False"

\* C13: for a login with a row in the users table (whatever its id, 0
\* included) and a role of the catalog, with no database error,
\* CheckMembership returns True exactly when the grant table holds a row for
\* (the user's id, the role).
C13_CheckIffRow ==
    last.op = "check" /\ last.raised = "none" /\ HasUserRow(last.user)
        /\ role_exists(last.role)
    => (last.ret = "True"
        <=> HasGrantRow(SessionView, last.role, UserRowId(last.user)))

\* The same for the users whose id is not 0.
C13_CheckIffRow_IdNotZero ==
    last.op = "check" /\ last.raised = "none" /\ HasUserRow(last.user)
        /\ UserRowId(last.user) # 0 /\ role_exists(last.role)
    => (last.ret = "True"
        <=> HasGrantRow(SessionView, last.role, UserRowId(last.user)))
C13_CheckIffRow_IdNotZero_Witness ==
    last.op = "check" /\ last.ret = "True" /\ last.uid = 1 /\ last.before # {}

\* C16: when the roles query fails at load time the engine is still
\* constructed, with an empty catalog, and from then on every CheckMembership
\* and GrantRole call for a user that resolves returns RoleNotFound and
\* changes nothing.
LoadFailed ==
    role_manager = "engine" /\ rolesTable # <<>> /\ DOMAIN roles = {}
C16_LoadFailure ==
    /\ last.op = "startup" /\ last.raised = "roles_query"
       => role_manager = "engine" /\ DOMAIN roles = {}
    /\ LoadFailed /\ EngineCall /\ last.raised = "none" /\ HasUserRow(last.user)
       => Outcome(last) = "RoleNotFound" /\ last.ret = "False" /\ Untouched

\* The same for the users whose id is not 0.
C16_LoadFailure_IdNotZero ==
    /\ last.op = "startup" /\ last.raised = "roles_query"
       => role_manager = "engine" /\ DOMAIN roles = {}
    /\ LoadFailed /\ EngineCall /\ last.raised = "none" /\ HasUserRow(last.user)
          /\ UserRowId(last.user) # 0
       => Outcome(last) = "RoleNotFound" /\ last.ret = "False" /\ Untouched
C16_LoadFailure_IdNotZero_Witness ==
    LoadFailed /\ last.op = "grant" /\ last.uid = 1
        /\ Outcome(last) = "RoleNotFound"

\* C18: the ids of the grant rows stay pairwise distinct under GrantRole calls
\* made one at a time on one session, and every row a call inserts has an id
\* greater than every id that was in the table before the insert.
C18_DistinctIds ==
    /\ \A r1, r2 \in SessionView : r1.id = r2.id => r1 = r2
    /\ last.op = "grant"
       => \A row \in SessionView \ (last.before \cup last.pbefore) :
             \A old \in last.before \cup last.pbefore : row.id > old.id
C18_Witness ==
    /\ last.op = "grant" /\ Outcome(last) = "Success"
    /\ Cardinality(last.before) >= 2
    /\ \E row \in grants \ last.before : row.usr_id = last.uid

\* C19: when grant_role returns True (newly granted or already granted) the
\* table holds a grant row for (resolved user id, role id) as the call
\* returns: a row the session sees, and a committed one when the session held
\* no uncommitted row as the call began. When it returns False the call has
\* added no row.
C19_TrueMeansRow ==
    last.op = "grant"
    => /\ last.ret = "True"
          => /\ HasGrantRow(SessionView, last.role, last.uid)
             /\ last.pbefore = {} => HasGrantRow(grants, last.role, last.uid)
       /\ last.ret = "False"
          => grants = last.before /\ pending \subseteq last.pbefore
C19_Witness ==
    /\ last.op = "grant" /\ last.ret = "True" /\ Outcome(last) = "Success"
    /\ ~HasGrantRow(last.before, last.role, last.uid)
    /\ HasGrantRow(grants, last.role, last.uid)
C19_FalseWitness ==
    last.op = "grant" /\ last.ret = "False" /\ last.raised = "insert"

\* C15: the role catalog is a snapshot taken at construction. No operation
\* changes it once the engine exists, whatever happens to the roles table, and
\* a call that gets past the user test reports RoleNotFound exactly for the
\* role ids missing from the snapshot: a role added to the table later is
\* still not found, a role removed from it is still found.
C15_CatalogSnapshot ==
    /\ [][role_manager = "engine"
            => roles' = roles /\ roles_by_name' = roles_by_name]_vars
    /\ [](EngineCall /\ last.raised = "none" /\ last.uid \notin {None, 0}
            => (Outcome(last) = "RoleNotFound" <=> last.role \notin DOMAIN roles))
C15_Witness ==
    /\ EngineCall /\ ~last.stale /\ Outcome(last) = "RoleNotFound"
    /\ DOMAIN roles = {1} /\ last.role \in RoleRowIds(rolesTable)
C15_RemovedWitness ==
    /\ last.op = "grant" /\ ~last.stale /\ Outcome(last) = "Success"
    /\ last.role \notin RoleRowIds(rolesTable)

\* C17: every CheckMembership and GrantRole call resolves the login name
\* against the users table as it is at the time of the call: after a login
\* has been added, removed or moved to another id, the next call uses the new
\* mapping.
IdsOfLogin(user) == {row.id : row \in {x \in usersTable : x.usr_portal = user}}
C17_ResolvedAtCall ==
    EngineCall /\ ~last.stale
        /\ last.raised \notin {"cursor", "user_cursor", "user_query"}
    => IF IdsOfLogin(last.user) = {} THEN last.uid = None
       ELSE last.uid \in IdsOfLogin(last.user)
C17_Witness ==
    /\ last.op = "grant" /\ ~last.stale /\ last.user = "alice" /\ last.uid = 2
    /\ Outcome(last) = "Success"
    /\ \E row \in last.before : row.usr_id = 1
C17_RemovedWitness ==
    /\ last.op = "grant" /\ ~last.stale /\ last.user = "alice"
    /\ Outcome(last) = "UserNotFound" /\ IdsOfLogin("alice") = {}
    /\ \E row \in last.before : row.usr_id = 1

\* C12: for the actions check and grant the engine operation is invoked once
\* for each (user, role) pair of the product of the two lists, users outer and
\* roles inner, and a failed pair does not keep the remaining pairs from being
\* processed: a run that entered the loops ends with every pair invoked.
Pairs(users, role_ids) ==
    [k \in 1 .. Len(users) * Len(role_ids) |->
        <<users[((k - 1) \div Len(role_ids)) + 1],
          role_ids[((k - 1) % Len(role_ids)) + 1]>>]
Invoked(calls) == [k \in DOMAIN calls |-> <<calls[k].user, calls[k].role>>]
InListOrder ==
    LET all == Pairs(cli.users, cli.roles)
    IN  /\ Len(cli.calls) <= Len(all)
        /\ Invoked(cli.calls) = SubSeq(all, 1, Len(cli.calls))
C12_EveryPairOnce ==
    /\ InListOrder
    /\ cli.code \in {"ok", "uncaught"}
       => Invoked(cli.calls) = Pairs(cli.users, cli.roles)

\* The same for the runs in which no exception leaves an engine call: calls
\* that return False do not stop the loops.
C12_EveryPairOnce_Returned ==
    /\ InListOrder
    /\ cli.code = "ok" => Invoked(cli.calls) = Pairs(cli.users, cli.roles)
C12_EveryPairOnce_Returned_Witness ==
    /\ cli.code = "ok" /\ Len(cli.calls) = MaxListLen * MaxListLen
    /\ cli.calls[1].ret = "False" /\ cli.calls[Len(cli.calls)].ret = "True"

\* C14: at most one grant row exists per (user id, role id) pair in every
\* reachable state, starting from a table without duplicates, when GrantRole
\* calls for the same pair run on two sessions and their steps interleave.
GrantPairs == {<<row.rol_id, row.usr_id>> : row \in grants}
C14_AtMostOneRow ==
    \A p \in GrantPairs : Cardinality(RowsFor(grants, p[1], p[2])) <= 1

\* What holds of the two sessions: a pair never has more rows than there are
\* sessions, and the commit that gives a pair its second row is always the
\* commit of a call that overlapped another one: its existence query ran
\* before the other session committed its row for the pair. Calls for a pair
\* that do not overlap leave one row.
C14_DuplicateOnlyByOverlap ==
    /\ [](\A p \in GrantPairs :
             Cardinality(RowsFor(grants, p[1], p[2])) <= Cardinality(Sessions))
    /\ [][\A row \in grants' \ grants :
             RowsFor(grants, row.rol_id, row.usr_id) # {}
             => /\ sess[row.rowid].pc = "inserted"
                /\ sess[row.rowid].overlap]_vars
C14_Witness ==
    \E s \in Sessions :
        /\ sess[s].pc = "inserted" /\ sess[s].overlap
        /\ Cardinality(RowsFor(grants, sess[s].role_id, sess[s].user_id)) = 1
C14_SerialWitness ==
    /\ \A s \in Sessions : sess[s].pc = "idle"
    /\ {row.rowid : row \in grants} = Sessions
    /\ C14_AtMostOneRow

====
